---- MODULE Spec2Model ----
(***************************************************************************)
(* Word search finder (src/Python/finder.py): the Grid index built by      *)
(* Grid.__post_init__, the per-line check find_in_group, the four-family   *)
(* scan of Grid.find_word with its coordinate back-transforms, and the     *)
(* overlay written by Grid.highlight.                                      *)
(*                                                                         *)
(* Strings are sequences of letters.  Python indices are kept 0-based:     *)
(* the character s[i] of the source is s[i + 1] here.  A decorated overlay *)
(* cell f"{color}{letter}{Fore.RESET}" is the token sequence               *)
(* <<color, letter, RESET>>; an undecorated one is <<letter>>.             *)
(***************************************************************************)
EXTENDS Integers, Sequences, FiniteSets, TLC

VARIABLES text, columns, diag_up_right, diag_down_right, highlighted,
          status, calls, word, color, found, touched

vars == <<text, columns, diag_up_right, diag_down_right, highlighted,
          status, calls, word, color, found, touched>>

(* ------------------------------ bounds --------------------------------- *)

MaxRows == 3
MaxCols == 3
MaxCells == 6
MaxRaggedCells == 2
MaxWordLen == 2
MaxSeqCells == 4
MaxCalls == 2

Letters == {"A", "B", "C"}
Colors == {"RED", "GREEN"}
RESET == "RESET"

(* ------------------------- Python primitives --------------------------- *)

None == <<>>

Min(S) == CHOOSE x \in S : \A y \in S : x <= y

\* s[::-1]
Reverse(s) == [i \in 1..Len(s) |-> s[Len(s) + 1 - i]]

\* the 0-based positions at which word occurs in row as a contiguous slice
Occurrences(wd, row) ==
    {i \in 0..(Len(row) - Len(wd)) : SubSeq(row, i + 1, i + Len(wd)) = wd}

\* word in row
Contains(wd, row) == Occurrences(wd, row) # {}

\* row.find(word)
Find(row, wd) ==
    LET at == Occurrences(wd, row) IN IF at = {} THEN -1 ELSE Min(at)

\* list indexing seq[i]: a negative index counts from the end, anything
\* outside -len..len-1 raises IndexError
IndexOk(seq, i) == -Len(seq) <= i /\ i < Len(seq)
PyIndex(seq, i) == IF i < 0 THEN Len(seq) + i + 1 ELSE i + 1

(* ------------------------------ Direction ------------------------------ *)

UP == "UP"
DOWN == "DOWN"
LEFT == "LEFT"
RIGHT == "RIGHT"
ANGLED_UP_RIGHT == "ANGLED_UP_RIGHT"
ANGLED_DOWN_RIGHT == "ANGLED_DOWN_RIGHT"
ANGLED_UP_LEFT == "ANGLED_UP_LEFT"
ANGLED_DOWN_LEFT == "ANGLED_DOWN_LEFT"

Direction == {UP, DOWN, LEFT, RIGHT, ANGLED_UP_RIGHT, ANGLED_DOWN_RIGHT,
              ANGLED_UP_LEFT, ANGLED_DOWN_LEFT}

Location(row, column) == <<row, column>>

(* -------------------------- Grid.__post_init__ ------------------------- *)

\* [[] for _ in range(n)]
EmptyLists(n) == [i \in 1..n |-> <<>>]

\* the (row, col) pairs visited by the nested loops, in visiting order
RECURSIVE EnumerateCells(_, _, _)
EnumerateCells(t, row, col) ==
    IF row >= Len(t) THEN <<>>
    ELSE IF col >= Len(t[row + 1]) THEN EnumerateCells(t, row + 1, 0)
    ELSE <<(<<row, col>>)>> \o EnumerateCells(t, row, col + 1)

\* one pass of the inner loop body for the cell cells[k]; acc.raised is set
\* when one of the three list subscripts is out of range
RECURSIVE PostInitLoop(_, _, _, _)
PostInitLoop(t, cells, k, acc) ==
    IF k > Len(cells) \/ acc.raised THEN acc
    ELSE
        LET row == cells[k][1]
            col == cells[k][2]
            letter == t[row + 1][col + 1]
            up == row + col
            dn == col - row + Len(t) - 1
        IN  IF ~ (IndexOk(acc.cols, col) /\ IndexOk(acc.diag_up, up)
                  /\ IndexOk(acc.diag_dn, dn))
            THEN [acc EXCEPT !.raised = TRUE]
            ELSE PostInitLoop(t, cells, k + 1,
                    [acc EXCEPT
                        !.cols[PyIndex(acc.cols, col)] = Append(@, letter),
                        !.diag_up[PyIndex(acc.diag_up, up)] = Append(@, letter),
                        !.diag_dn[PyIndex(acc.diag_dn, dn)] = Append(@, letter),
                        !.highlighted[row + 1] = Append(@, <<letter>>)])

\* the outcome of Grid(text): the fields of the new object, or the
\* IndexError that leaves no object
PostInit(t) ==
    IF Len(t) = 0 THEN [raised |-> TRUE]
    ELSE
        LET row_count == Len(t)
            col_count == Len(t[1])
            diags == row_count + col_count - 1
            acc == PostInitLoop(t, EnumerateCells(t, 0, 0), 1,
                       [cols |-> EmptyLists(col_count),
                        diag_up |-> EmptyLists(diags),
                        diag_dn |-> EmptyLists(diags),
                        highlighted |-> EmptyLists(row_count),
                        raised |-> FALSE])
        IN  IF acc.raised THEN [raised |-> TRUE]
            ELSE [raised |-> FALSE,
                  text |-> t,
                  columns |-> acc.cols,
                  diag_up_right |-> [d \in 1..diags |-> Reverse(acc.diag_up[d])],
                  diag_down_right |-> acc.diag_dn,
                  highlighted |-> acc.highlighted]

(* ---------------------------- find_in_group ---------------------------- *)

\* find_in_group trying the reversed line first
find_in_group_backward_first(wd, row) ==
    IF Contains(wd, Reverse(row))
    THEN <<(Len(row) - 1) - Find(Reverse(row), wd), FALSE>>
    ELSE IF Contains(wd, row) THEN <<Find(row, wd), TRUE>>
    ELSE None

\* find_in_group giving, for a backward match, the offset of the word's
\* last letter
find_in_group_last_letter(wd, row) ==
    IF Contains(wd, row) THEN <<Find(row, wd), TRUE>>
    ELSE IF Contains(wd, Reverse(row))
    THEN <<(Len(row) - 1) - Find(Reverse(row), wd) - (Len(wd) - 1), FALSE>>
    ELSE None

\* None, or <<index, forward>>
find_in_group(wd, row) ==
    IF Contains(wd, row) THEN <<Find(row, wd), TRUE>>
    ELSE IF Contains(wd, Reverse(row))
    THEN LET last_index == Len(row) - 1
             last_col == Find(Reverse(row), wd)
         IN  <<last_index - last_col, FALSE>>
    ELSE None

\* the first (index, result) of enumerate(lines) whose result is not None,
\* as <<index, result>>; None when every line gives None
FirstHit(wd, lines) ==
    LET hits == {k \in 0..(Len(lines) - 1) :
                    find_in_group(wd, lines[k + 1]) # None}
    IN  IF hits = {} THEN None
        ELSE LET k == Min(hits) IN <<k, find_in_group(wd, lines[k + 1])>>

(* ---------------------------- Grid.highlight --------------------------- *)

\* the match statement: (row_off, col_off) of a direction
Offsets(direction) ==
    CASE direction = RIGHT -> <<0, 1>>
      [] direction = LEFT -> <<0, -1>>
      [] direction = UP -> <<-1, 0>>
      [] direction = DOWN -> <<1, 0>>
      [] direction = ANGLED_UP_RIGHT -> <<-1, 1>>
      [] direction = ANGLED_DOWN_LEFT -> <<1, -1>>
      [] direction = ANGLED_UP_LEFT -> <<-1, -1>>
      [] direction = ANGLED_DOWN_RIGHT -> <<1, 1>>

\* for ind in range(length): acc.touched records the subscripts used, in
\* order; acc.raised is set when self.text[row][col] or
\* self.highlighted[row][col] raises IndexError, the writes made before it
\* staying in place
RECURSIVE HighlightLoop(_, _, _, _, _, _, _)
HighlightLoop(g, start, off, length, clr, ind, acc) ==
    IF ind >= length \/ acc.raised THEN acc
    ELSE
        LET row == start[1] + ind * off[1]
            col == start[2] + ind * off[2]
            seen == Append(acc.touched, <<row, col>>)
        IN  IF ~ IndexOk(g.text, row)
            THEN [acc EXCEPT !.touched = seen, !.raised = TRUE]
            ELSE
                LET r == PyIndex(g.text, row)
                IN  IF ~ (IndexOk(g.text[r], col)
                          /\ IndexOk(acc.highlighted[r], col))
                    THEN [acc EXCEPT !.touched = seen, !.raised = TRUE]
                    ELSE
                        LET letter == g.text[r][PyIndex(g.text[r], col)]
                            c == PyIndex(acc.highlighted[r], col)
                        IN  HighlightLoop(g, start, off, length, clr, ind + 1,
                                [acc EXCEPT
                                    !.touched = seen,
                                    !.highlighted[r][c] = <<clr, letter, RESET>>])

\* highlight leaving out the last cell of the path
highlight_one_short(g, start, direction, length, clr) ==
    HighlightLoop(g, start, Offsets(direction), length - 1, clr, 0,
        [highlighted |-> g.highlighted, touched |-> <<>>, raised |-> FALSE])

highlight(g, start, direction, length, clr) ==
    HighlightLoop(g, start, Offsets(direction), length, clr, 0,
        [highlighted |-> g.highlighted, touched |-> <<>>, raised |-> FALSE])

(* ---------------------------- Grid.find_word --------------------------- *)

\* UpRightStart without the + 1 of the second branch
UpRightStartNoShift(num_rows, diag, index) ==
    IF diag < num_rows
    THEN Location(diag - index, index)
    ELSE Location(num_rows - index - 1, (diag - num_rows) + index)

\* start of a match at offset index of self.diag_up_right[diag]
UpRightStart(num_rows, diag, index) ==
    IF diag < num_rows
    THEN Location(diag - index, index)
    ELSE Location(num_rows - index - 1, (diag - num_rows) + index + 1)

\* DownRightStart without the + 1 of the second branch
DownRightStartNoShift(num_rows, diag, index) ==
    IF diag < num_rows
    THEN Location(num_rows - diag + index - 1, index)
    ELSE Location(index, diag - num_rows + index)

\* start of a match at offset index of self.diag_down_right[diag]
DownRightStart(num_rows, diag, index) ==
    IF diag < num_rows
    THEN Location(num_rows - diag + index - 1, index)
    ELSE Location(index, diag - num_rows + index + 1)

\* the four loops of find_word up to the call of highlight, over the rows,
\* the columns and the two diagonal lists: None, or <<start, direction>> of
\* the first line, in scan order, that find_in_group accepts
ScanLines(num_rows, rows, cols, up_right, down_right, wd) ==
    LET in_rows == FirstHit(wd, rows)
        in_cols == FirstHit(wd, cols)
        in_up == FirstHit(wd, up_right)
        in_down == FirstHit(wd, down_right)
    IN  IF in_rows # None
        THEN LET row == in_rows[1]
                 col == in_rows[2][1]
                 to_right == in_rows[2][2]
             IN  <<Location(row, col), IF to_right THEN RIGHT ELSE LEFT>>
        ELSE IF in_cols # None
        THEN LET col == in_cols[1]
                 row == in_cols[2][1]
                 down == in_cols[2][2]
             IN  <<Location(row, col), IF down THEN DOWN ELSE UP>>
        ELSE IF in_up # None
        THEN LET diag == in_up[1]
                 index == in_up[2][1]
                 forward == in_up[2][2]
             IN  <<UpRightStart(num_rows, diag, index),
                   IF forward THEN ANGLED_UP_RIGHT ELSE ANGLED_DOWN_LEFT>>
        ELSE IF in_down # None
        THEN LET diag == in_down[1]
                 index == in_down[2][1]
                 forward == in_down[2][2]
             IN  <<DownRightStart(num_rows, diag, index),
                   IF forward THEN ANGLED_DOWN_RIGHT ELSE ANGLED_UP_LEFT>>
        ELSE None

\* the search leaving out the fourth loop
SearchWithoutDownRight(g, wd) ==
    ScanLines(Len(g.text), g.text, g.columns, g.diag_up_right, <<>>, wd)

\* the search reading its rows from the overlay, where a decorated cell is
\* no longer its letter
SearchOverlay(g, wd) ==
    ScanLines(Len(g.text),
        [r \in 1..Len(g.highlighted) |->
            [c \in 1..Len(g.highlighted[r]) |-> g.highlighted[r][c][1]]],
        g.columns, g.diag_up_right, g.diag_down_right, wd)

\* the search find_word makes on the grid g
Search(g, wd) ==
    ScanLines(Len(g.text), g.text, g.columns, g.diag_up_right,
        g.diag_down_right, wd)

\* find_word that rebuilds the overlay from the text when nothing is found
find_word_resetting(g, wd, clr) ==
    LET m == Search(g, wd)
    IN  IF m = None
        THEN [found |-> None,
              highlighted |-> [r \in 1..Len(g.text) |->
                                 [c \in 1..Len(g.text[r]) |-> <<g.text[r][c]>>]],
              touched |-> <<>>, raised |-> FALSE]
        ELSE LET h == highlight(g, m[1], m[2], Len(wd), clr)
             IN  [found |-> IF h.raised THEN None ELSE m,
                  highlighted |-> h.highlighted,
                  touched |-> h.touched, raised |-> h.raised]

\* find_word(word, color) on the grid g: the value returned, the overlay
\* afterwards, the subscripts highlight used, and whether it raised
find_word(g, wd, clr) ==
    LET m == Search(g, wd)
    IN  IF m = None
        THEN [found |-> None, highlighted |-> g.highlighted,
              touched |-> <<>>, raised |-> FALSE]
        ELSE LET h == highlight(g, m[1], m[2], Len(wd), clr)
             IN  [found |-> IF h.raised THEN None ELSE m,
                  highlighted |-> h.highlighted,
                  touched |-> h.touched, raised |-> h.raised]

(* ------------------------------ the program ---------------------------- *)

\* the strings of at most n letters
Strings(n) == UNION {[1..k -> Letters] : k \in 0..n}

IsRectangular(t) == \A r \in 1..Len(t) : Len(t[r]) = Len(t[1])

\* the tuples of exactly r rows, each of at most MaxCols letters, holding at
\* most n letters in all
RECURSIVE TextsOf(_, _)
TextsOf(r, n) ==
    IF r = 0 THEN {<<>>}
    ELSE UNION {{<<s>> \o t : t \in TextsOf(r - 1, n - Len(s))} :
                    s \in Strings(IF n < MaxCols THEN n ELSE MaxCols)}

\* the rectangular blocks of at most n letters, rows >= 1
Blocks(n) ==
    UNION {[1..r -> [1..c -> Letters]] :
              <<r, c>> \in {rc \in (1..MaxRows) \X (0..MaxCols) : rc[1] * rc[2] <= n}}

\* the row tuples handed to Grid(...): no row, the rectangular blocks of at
\* most n letters, and the ragged tuples of at most MaxRaggedCells letters
Texts(n) ==
    {<<>>} \cup Blocks(n)
        \cup {t \in UNION {TextsOf(r, MaxRaggedCells) : r \in 1..MaxRows} :
                  ~ IsRectangular(t)}

\* which of the program's outcomes the run has reached: the Grid exists,
\* Grid(...) raised IndexError, or find_word raised IndexError
Built == "built"
RaisedInGrid == "IndexError in Grid"
RaisedInFindWord == "IndexError in find_word"

Self ==
    [text |-> text, columns |-> columns, diag_up_right |-> diag_up_right,
     diag_down_right |-> diag_down_right, highlighted |-> highlighted]

\* the state once Grid(t) has returned or raised, t drawn from T
Construct(T) ==
    /\ text \in T
    /\ \E g \in {PostInit(text)} :
           IF g.raised
           THEN /\ status = RaisedInGrid
                /\ columns = <<>>
                /\ diag_up_right = <<>>
                /\ diag_down_right = <<>>
                /\ highlighted = <<>>
           ELSE /\ status = Built
                /\ columns = g.columns
                /\ diag_up_right = g.diag_up_right
                /\ diag_down_right = g.diag_down_right
                /\ highlighted = g.highlighted
    /\ calls = 0
    /\ word = <<>>
    /\ color = ""
    /\ found = None
    /\ touched = <<>>

\* one iteration of main's loop: found = grid.find_word(word, color)
FindWord(wd, clr) ==
    /\ status = Built
    /\ \E r \in {find_word(Self, wd, clr)} :
           /\ highlighted' = r.highlighted
           /\ found' = r.found
           /\ touched' = r.touched
           /\ status' = IF r.raised THEN RaisedInFindWord ELSE status
    /\ calls' = calls + 1
    /\ word' = wd
    /\ color' = clr
    /\ UNCHANGED <<text, columns, diag_up_right, diag_down_right>>

\* Spec: every grid of Texts(MaxCells), and the first find_word call on it
Init == Construct(Texts(MaxCells))

FirstCall ==
    /\ calls = 0
    /\ \E wd \in Strings(MaxWordLen), clr \in Colors : FindWord(wd, clr)

Next == FirstCall

Spec == Init /\ [][Next]_vars

\* SpecSeq: the grids of Texts(MaxSeqCells), and the sequences of at most
\* MaxCalls find_word calls on them
InitSeq == Construct(Texts(MaxSeqCells))

AnyCall ==
    /\ calls < MaxCalls
    /\ \E wd \in Strings(MaxWordLen), clr \in Colors : FindWord(wd, clr)

NextSeq == AnyCall

SpecSeq == InitSeq /\ [][NextSeq]_vars

(* ---------------- the grid as the specification describes it ------------- *)

HasGrid == status # RaisedInGrid
Rectangular == HasGrid /\ IsRectangular(text)
NumRows == Len(text)
NumCols == Len(text[1])
GridCells == (0..(NumRows - 1)) \X (0..(NumCols - 1))
LetterAt(cell) == text[cell[1] + 1][cell[2] + 1]

\* the last call returned a match / returned None
ReturnedMatch == calls > 0 /\ status = Built /\ found # None
ReturnedNone == calls > 0 /\ status = Built /\ found = None

\* (rowStep, colStep) of the eight directions
RowStep(d) ==
    IF d \in {UP, ANGLED_UP_RIGHT, ANGLED_UP_LEFT} THEN -1
    ELSE IF d \in {DOWN, ANGLED_DOWN_RIGHT, ANGLED_DOWN_LEFT} THEN 1 ELSE 0
ColStep(d) ==
    IF d \in {LEFT, ANGLED_UP_LEFT, ANGLED_DOWN_LEFT} THEN -1
    ELSE IF d \in {RIGHT, ANGLED_UP_RIGHT, ANGLED_DOWN_RIGHT} THEN 1 ELSE 0

PathCell(start, d, k) == <<start[1] + k * RowStep(d), start[2] + k * ColStep(d)>>
Path(start, d, n) == {PathCell(start, d, k) : k \in 0..(n - 1)}

\* wd is what the cells from start on, stepping in direction d, spell
Reads(start, d, wd) ==
    \A k \in 0..(Len(wd) - 1) :
        /\ PathCell(start, d, k) \in GridCells
        /\ LetterAt(PathCell(start, d, k)) = wd[k + 1]

OccursInGrid(wd) == \E start \in GridCells, d \in Direction : Reads(start, d, wd)

\* wd is the slice of str that starts at offset i
SliceAt(str, i, wd) ==
    /\ i >= 0
    /\ i + Len(wd) <= Len(str)
    /\ \A j \in 1..Len(wd) : str[i + j] = wd[j]
SlicesOf(str, wd) == {i \in 0..Len(str) : SliceAt(str, i, wd)}
Backwards(wd) == [j \in 1..Len(wd) |-> wd[Len(wd) + 1 - j]]

\* the lines of the grid, family by family in scan order: 1 rows, 2 columns,
\* 3 up-right diagonals (row + col = line), 4 down-right diagonals
\* (col - row = line - (rows - 1)); CellOn is the cell at offset off of a
\* line read left-to-right, top-to-bottom, up-and-right, down-and-right
LineCount(f) ==
    IF f = 1 THEN NumRows ELSE IF f = 2 THEN NumCols ELSE NumRows + NumCols - 1
LineIndex(f, cell) ==
    IF f = 1 THEN cell[1]
    ELSE IF f = 2 THEN cell[2]
    ELSE IF f = 3 THEN cell[1] + cell[2]
    ELSE cell[2] - cell[1] + NumRows - 1
CellOn(f, line, off) ==
    IF f = 1 THEN <<line, off>>
    ELSE IF f = 2 THEN <<off, line>>
    ELSE IF f = 3
    THEN LET bottom == IF line < NumRows - 1 THEN line ELSE NumRows - 1
         IN  <<bottom - off, line - bottom + off>>
    ELSE LET k == line - (NumRows - 1)
         IN  <<(IF k < 0 THEN -k ELSE 0) + off, (IF k > 0 THEN k ELSE 0) + off>>
LineLen(f, line) == Cardinality({cell \in GridCells : LineIndex(f, cell) = line})
LineStr(f, line) == [i \in 1..LineLen(f, line) |-> LetterAt(CellOn(f, line, i - 1))]
ForwardDir(f) ==
    IF f = 1 THEN RIGHT ELSE IF f = 2 THEN DOWN
    ELSE IF f = 3 THEN ANGLED_UP_RIGHT ELSE ANGLED_DOWN_RIGHT
BackwardDir(f) ==
    IF f = 1 THEN LEFT ELSE IF f = 2 THEN UP
    ELSE IF f = 3 THEN ANGLED_DOWN_LEFT ELSE ANGLED_UP_LEFT

\* the lines that hold wd forward or reversed, and the scan order of lines
LinesWith(wd) ==
    {ln \in UNION {{<<f, line>> : line \in 0..(LineCount(f) - 1)} : f \in 1..4} :
        \E str \in {LineStr(ln[1], ln[2])} :
            SlicesOf(str, wd) # {} \/ SlicesOf(str, Backwards(wd)) # {}}
ScannedBefore(a, b) == a[1] < b[1] \/ (a[1] = b[1] /\ a[2] < b[2])
\* an overlay cell
Plain(letter) == <<letter>>
Decorated(clr, letter) == <<clr, letter, RESET>>

(* --------------------------------- C1 ----------------------------------- *)

\* C1: soundness of find_word.  On a rectangular grid, when find_word
\* returns (start, direction) for a non-empty word, the len(word) cells
\* from start on, stepping by the direction's (rowStep, colStep), lie in
\* the grid and spell the word.
C1_Soundness ==
    (Rectangular /\ ReturnedMatch /\ word # <<>>) =>
        Reads(found[1], found[2], word)

\* a backward match on a down-right diagonal with diag >= rows of a
\* non-square grid
C1_Witness ==
    /\ Rectangular /\ ReturnedMatch
    /\ NumRows # NumCols
    /\ Len(word) = 2
    /\ found[2] = ANGLED_UP_LEFT
    /\ LineIndex(4, found[1]) >= NumRows

(* --------------------------------- C2 ----------------------------------- *)

\* C2: completeness of find_word.  On a rectangular grid and for a
\* non-empty word, find_word returns None exactly when the word is spelled
\* by no straight run of cells in any of the eight directions.
C2_Completeness ==
    (Rectangular /\ calls > 0 /\ word # <<>>) =>
        /\ status = Built
        /\ (found = None) <=> ~ OccursInGrid(word)

\* a word whose letters are both in the grid, but which the grid does not
\* hold, is not found
C2_Witness ==
    /\ Rectangular /\ ReturnedNone
    /\ NumRows >= 2 /\ NumCols >= 2
    /\ Len(word) = 2
    /\ \A j \in 1..2 : \E cell \in GridCells : LetterAt(cell) = word[j]

(* --------------------------------- C3 ----------------------------------- *)

\* C3: first match wins.  The match returned lies on the first line, in the
\* order rows, columns, up-right diagonals, down-right diagonals (each by
\* ascending index), that holds the word forward or reversed; if that line
\* holds the word forward, the leftmost forward occurrence is returned with
\* the family's forward direction, and only otherwise a backward occurrence
\* with the family's backward direction.
C3_FirstMatchWins ==
    (Rectangular /\ ReturnedMatch) =>
        \E lines \in {LinesWith(word)} :
            \E ln \in lines :
                /\ \A other \in lines : ln = other \/ ScannedBefore(ln, other)
                /\ \E str \in {LineStr(ln[1], ln[2])} :
                       \E fwd \in {SlicesOf(str, word)} :
                           IF fwd # {}
                           THEN found = <<CellOn(ln[1], ln[2], Min(fwd)),
                                          ForwardDir(ln[1])>>
                           ELSE /\ found[2] = BackwardDir(ln[1])
                                /\ \E j \in SlicesOf(str, Backwards(word)) :
                                       found[1] = CellOn(ln[1], ln[2],
                                                         j + Len(word) - 1)

\* the word lies on three lines or more, and the one returned is a column
\* read bottom-to-top
C3_Witness ==
    /\ Rectangular /\ ReturnedMatch
    /\ Len(word) = 2
    /\ Cardinality(LinesWith(word)) >= 3
    /\ found[2] = UP

(* --------------------------------- C4 ----------------------------------- *)

\* C4: Grid construction fails with MalformedGridError when there is no row
\* or the rows differ in length, and succeeds for every non-empty tuple of
\* equal-length rows.
C4_MalformedGridError ==
    calls = 0 =>
        IF Len(text) = 0 \/ ~ IsRectangular(text)
        THEN status = "MalformedGridError"
        ELSE status = Built

(* --------------------------------- C5 ----------------------------------- *)

\* the lines find_word hands to find_in_group
AllLines ==
    {text[i] : i \in 1..Len(text)} \cup {columns[i] : i \in 1..Len(columns)}
        \cup {diag_up_right[i] : i \in 1..Len(diag_up_right)}
        \cup {diag_down_right[i] : i \in 1..Len(diag_down_right)}

BackwardOnly(wd, line) ==
    SlicesOf(line, wd) = {} /\ SlicesOf(Reverse(line), wd) # {}

\* C5 as claimed: for a word that is in the reversed line only, first at
\* index k of it, find_in_group returns the offset
\* lineLength - 1 - k - (wordLength - 1) and the flag False.
C5_AsClaimed ==
    (HasGrid /\ calls > 0) =>
        \A line \in AllLines :
            BackwardOnly(word, line) =>
                LET k == Min(SlicesOf(Reverse(line), word))
                IN  find_in_group(word, line)
                        = <<Len(line) - 1 - k - (Len(word) - 1), FALSE>>

\* C5 as amended: for a word that is in the reversed line only, first at
\* index k of it, find_in_group returns the offset lineLength - 1 - k and
\* the flag False; that offset is where the word's first letter stands in
\* the line, the word reading from there towards offset 0.
C5_BackwardOffset ==
    (HasGrid /\ calls > 0) =>
        \A line \in AllLines :
            BackwardOnly(word, line) =>
                LET k == Min(SlicesOf(Reverse(line), word))
                    res == find_in_group(word, line)
                IN  /\ res = <<Len(line) - 1 - k, FALSE>>
                    /\ \A j \in 1..Len(word) : line[res[1] + 2 - j] = word[j]

\* a two-letter word that a three-letter line holds reversed only
C5_Witness ==
    /\ HasGrid /\ calls > 0
    /\ Len(word) = 2
    /\ \E line \in AllLines : Len(line) = 3 /\ BackwardOnly(word, line)

(* --------------------------------- C6 ----------------------------------- *)

\* C6: in-bounds coordinates.  On a well-formed grid (rows >= 1, rows of
\* equal length) and for every word, find_word raises no IndexError, and
\* when it returns a match the start location satisfies 0 <= row < rows and
\* 0 <= column < cols, as does every subscript highlight uses, which are
\* start + ind * (rowStep, colStep) for ind in 0..len(word)-1.
C6_InBounds ==
    (Rectangular /\ calls > 0) =>
        /\ status = Built
        /\ \A i \in 1..Len(touched) : touched[i] \in GridCells
        /\ found # None =>
            /\ found[1] \in GridCells
            /\ touched = [i \in 1..Len(word) |-> PathCell(found[1], found[2], i - 1)]

(* --------------------------------- C7 ----------------------------------- *)

\* C7: overlay effect of a successful find_word.  On a rectangular grid,
\* when find_word(word, color) returns (start, direction), the len(word) distinct cells on the
\* path from start hold color + original letter + reset afterwards, every
\* other overlay cell is as before the call, and the text and the three
\* view lists are unchanged.
C7_OverlayEffect ==
    [][(Rectangular /\ calls' = calls + 1 /\ status' = Built /\ found' # None) =>
         LET P == Path(found'[1], found'[2], Len(word'))
         IN  /\ Cardinality(P) = Len(word')
             /\ \A cell \in P :
                    cell[1] \in 0..(Len(text) - 1)
                        /\ cell[2] \in 0..(Len(text[cell[1] + 1]) - 1)
             /\ highlighted' =
                    [r \in 1..Len(text) |-> [c \in 1..Len(text[r]) |->
                        IF <<r - 1, c - 1>> \in P
                        THEN Decorated(color', text[r][c])
                        ELSE highlighted[r][c]]]
             /\ UNCHANGED <<text, columns, diag_up_right, diag_down_right>>
      ]_vars

\* the overlay holds both colours after a match read down-and-left
C7_Witness ==
    /\ Rectangular /\ ReturnedMatch
    /\ Len(word) = 2
    /\ found[2] = ANGLED_DOWN_LEFT
    /\ \E r \in 1..Len(highlighted) : \E c \in 1..Len(highlighted[r]) :
           Len(highlighted[r][c]) = 3 /\ highlighted[r][c][1] # color

(* --------------------------------- C8 ----------------------------------- *)

\* C8: not-found is idempotent.  A call for a word that no line of the grid
\* holds returns None and leaves the overlay as it was; a call that repeats
\* the word of a not-found call is not found again, so the overlay after the
\* second call is the overlay before the first; and no not-found call writes
\* an overlay cell.
C8_NotFoundIdempotent ==
    [][(Rectangular /\ calls' = calls + 1) =>
         /\ LinesWith(word') = {} =>
                status' = Built /\ found' = None /\ highlighted' = highlighted
         /\ (ReturnedNone /\ word' = word) =>
                status' = Built /\ found' = None /\ highlighted' = highlighted
         /\ (status' = Built /\ found' = None) =>
                highlighted' = highlighted /\ touched' = <<>>
      ]_vars

\* a second call in a row that is not found, the overlay still undecorated
C8_Witness ==
    /\ Rectangular /\ ReturnedNone
    /\ calls = 2
    /\ Len(word) = 2
    /\ NumRows = 2 /\ NumCols = 2
    /\ \A cell \in GridCells :
           highlighted[cell[1] + 1][cell[2] + 1] = Plain(LetterAt(cell))

(* --------------------------------- C9 ----------------------------------- *)

\* C9: the diagonal views and the back-transforms are mutually inverse.  On
\* a rectangular grid each diagonal family has rows + cols - 1 views; view
\* d is as long as its line has cells; for every offset i of view d the
\* back-transform gives a cell of the grid, on line d, whose letter is the
\* character at offset i; and (d, i) -> cell is a bijection onto the cells
\* (it is onto them, and there are as many pairs (d, i) as cells).
C9_DiagonalsInverse ==
    Rectangular =>
        \E n \in {NumRows + NumCols - 1} :
            /\ Len(diag_up_right) = n
            /\ Len(diag_down_right) = n
            /\ \A d \in 0..(n - 1) :
                   /\ Len(diag_up_right[d + 1]) = LineLen(3, d)
                   /\ Len(diag_down_right[d + 1]) = LineLen(4, d)
                   /\ \A i \in 0..(Len(diag_up_right[d + 1]) - 1) :
                          \E cell \in {UpRightStart(NumRows, d, i)} :
                              /\ cell \in GridCells
                              /\ LineIndex(3, cell) = d
                              /\ LetterAt(cell) = diag_up_right[d + 1][i + 1]
                   /\ \A i \in 0..(Len(diag_down_right[d + 1]) - 1) :
                          \E cell \in {DownRightStart(NumRows, d, i)} :
                              /\ cell \in GridCells
                              /\ LineIndex(4, cell) = d
                              /\ LetterAt(cell) = diag_down_right[d + 1][i + 1]
            /\ \E upAt \in {{p \in (0..(n - 1)) \X (0..(n - 1)) :
                                p[2] < Len(diag_up_right[p[1] + 1])}} :
                   /\ Cardinality(upAt) = Cardinality(GridCells)
                   /\ {UpRightStart(NumRows, p[1], p[2]) : p \in upAt} = GridCells
            /\ \E downAt \in {{p \in (0..(n - 1)) \X (0..(n - 1)) :
                                  p[2] < Len(diag_down_right[p[1] + 1])}} :
                   /\ Cardinality(downAt) = Cardinality(GridCells)
                   /\ {DownRightStart(NumRows, p[1], p[2]) : p \in downAt} = GridCells

\* a freshly built 3 x 2 grid whose letters are not all the same
C9_Witness ==
    /\ Rectangular /\ calls = 0
    /\ NumRows = 3 /\ NumCols = 2
    /\ \E a \in GridCells, b \in GridCells : LetterAt(a) # LetterAt(b)

(* --------------------------------- C10 ---------------------------------- *)

\* C10: the search does not depend on the overlay, the earlier calls or the
\* colour.  What a call returns is what find_word returns for the same word,
\* with any colour, on a grid newly built from the same rows.
C10_HistoryIndependent ==
    (HasGrid /\ calls > 0 /\ status = Built) =>
        \A clr \in Colors :
            LET fresh == find_word(PostInit(text), word, clr)
            IN  ~ fresh.raised /\ fresh.found = found

\* a match returned by a second call while the overlay holds a cell that
\* an earlier call decorated in the other colour
C10_Witness ==
    /\ ReturnedMatch
    /\ calls = 2
    /\ Len(word) = 2
    /\ found[2] = RIGHT
    /\ \E r \in 1..Len(highlighted) : \E c \in 1..Len(highlighted[r]) :
           Len(highlighted[r][c]) = 3 /\ highlighted[r][c][1] # color

====
